---- MODULE Spec2Model ----
(***************************************************************************)
(* X Feed Curator (src/popup.js): the content script's batching            *)
(* coordinator, ranked filtering engine, command interpreter and message   *)
(* handlers, as a state machine.                                           *)
(*                                                                         *)
(* Text is a sequence of one-character strings, so that trim, startsWith,  *)
(* substring, the top-K regular expression and tokenize are computed as    *)
(* the code computes them.  A query vector is represented by the token     *)
(* sequence it is the mean embedding of (buildQueryVector is a pure        *)
(* function of tokenize(query)); relevance scores are the values           *)
(* attentionScore returns, in millionths.                                  *)
(*                                                                         *)
(* JavaScript runs every task to completion: a handler is split only at    *)
(* an await of real I/O (chrome.storage) and at timers.  The synchronous   *)
(* filtering pass is shown filter by filter (variable pass); while it runs *)
(* no other task is dispatched (Idle).                                     *)
(***************************************************************************)
EXTENDS Integers, Sequences, FiniteSets, TLC

(***************************************************************************)
(* Text primitives                                                         *)
(***************************************************************************)

\* Characters String.prototype.trim and the regex class \s treat as blank.
Whitespace == {" ", "\t"}

Digits == {"0", "1", "2", "3", "4", "5", "6", "7", "8", "9"}

\* Upper-case letters of the model's alphabet and their lower-case forms.
UpperCase == [A |-> "a", B |-> "b", D |-> "d", E |-> "e", H |-> "h",
              I |-> "i", L |-> "l", N |-> "n", O |-> "o", P |-> "p",
              S |-> "s", T |-> "t", W |-> "w", Y |-> "y"]

lowerChar(c) == IF c \in DOMAIN UpperCase THEN UpperCase[c] ELSE c

\* String.prototype.toLowerCase
toLowerCase(s) == [i \in 1..Len(s) |-> lowerChar(s[i])]

\* s.substring(k): the text from 0-based index k to the end.
substring(s, k) == SubSeq(s, k + 1, Len(s))

\* String.prototype.startsWith
startsWith(s, prefix) ==
    /\ Len(prefix) <= Len(s)
    /\ SubSeq(s, 1, Len(prefix)) = prefix

\* String.prototype.trim
trim(s) ==
    LET nonBlank == {i \in 1..Len(s) : s[i] \notin Whitespace}
    IN  IF nonBlank = {} THEN <<>>
        ELSE LET first == CHOOSE i \in nonBlank : \A j \in nonBlank : i <= j
                 last  == CHOOSE i \in nonBlank : \A j \in nonBlank : j <= i
             IN  SubSeq(s, first, last)

\* 1-based positions at which sub occurs in s.
occurrences(s, sub) ==
    {i \in 1..(Len(s) - Len(sub) + 1) : SubSeq(s, i, i + Len(sub) - 1) = sub}

\* String.prototype.includes
includes(s, sub) == occurrences(s, sub) # {}

\* s.split(sep)[1]: the piece between the first occurrence of sep and the
\* next occurrence that does not overlap it (or the end of s).
splitSecond(s, sep) ==
    LET occ   == occurrences(s, sep)
        first == CHOOSE i \in occ : \A j \in occ : i <= j
        from  == first + Len(sep)
        later == {i \in occ : i >= from}
        to    == IF later = {} THEN Len(s)
                 ELSE (CHOOSE i \in later : \A j \in later : i <= j) - 1
    IN  SubSeq(s, from, to)

\* parseInt of a run of decimal digits.
digitValue(c) ==
    CASE c = "0" -> 0 [] c = "1" -> 1 [] c = "2" -> 2 [] c = "3" -> 3
      [] c = "4" -> 4 [] c = "5" -> 5 [] c = "6" -> 6 [] c = "7" -> 7
      [] c = "8" -> 8 [] c = "9" -> 9

RECURSIVE parseInt(_)
parseInt(ds) ==
    IF ds = <<>> THEN 0
    ELSE 10 * parseInt(SubSeq(ds, 1, Len(ds) - 1)) + digitValue(ds[Len(ds)])

(***************************************************************************)
(* Tokenizer and query vector (AttentionRanker)                            *)
(***************************************************************************)

\* text.split(/\s+/).filter(Boolean): the maximal runs of non-blank
\* characters, in order.
RECURSIVE splitWords(_)
splitWords(s) ==
    IF s = <<>> THEN <<>>
    ELSE IF s[1] \in Whitespace THEN splitWords(Tail(s))
    ELSE LET blanks == {i \in 1..Len(s) : s[i] \in Whitespace}
             stop   == IF blanks = {} THEN Len(s) + 1
                       ELSE CHOOSE i \in blanks : \A j \in blanks : i <= j
         IN  <<SubSeq(s, 1, stop - 1)>> \o splitWords(SubSeq(s, stop, Len(s)))

tokenize(text) == splitWords(toLowerCase(text))

\* meanEmbeddingForText: the mean of the token embeddings of tokenize(text),
\* the zero vector for no tokens.  The vector is represented by the token
\* sequence that determines it; <<>> is the zero vector.
meanEmbeddingForText(text) == tokenize(text)

buildQueryVector(queryText) == meanEmbeddingForText(queryText)

(***************************************************************************)
(* Command interpreter                                                     *)
(***************************************************************************)

kwHide       == <<"h", "i", "d", "e", " ">>
kwRemove     == <<"r", "e", "m", "o", "v", "e", " ">>
kwShow       == <<"s", "h", "o", "w", " ">>
kwOnly       == <<"o", "n", "l", "y", " ">>
kwOnlyShow   == <<"o", "n", "l", "y", " ", "s", "h", "o", "w", " ">>
kwTop        == <<"t", "o", "p">>

\* Default top-K of a parsed filter (let topK = 20).
DefaultTopK == 20

\* Default threshold of a parsed filter (let threshold = 0.5), in millionths.
DefaultThreshold == 500000

\* The result of parseCommand for blank input.
Null == [mode |-> "null"]

\* A match that never finds the phrase.
topKMatchNever(query) == <<>>

\* query.match(/top\s+(\d+)/i): the leftmost match, as the 1-based positions
\* <<start of "top", first digit, last digit>>, or <<>> for no match.
topKMatch(query) ==
    LET low == toLowerCase(query)
        \* first position at or after i that is not blank (Len + 1 if none)
        skipBlank(i) ==
            LET rest == {j \in i..Len(query) : query[j] \notin Whitespace}
            IN  IF rest = {} THEN Len(query) + 1
                ELSE CHOOSE j \in rest : \A k \in rest : j <= k
        matchesAt(i) ==
            /\ i + 3 <= Len(query)
            /\ SubSeq(low, i, i + 2) = kwTop
            /\ query[i + 3] \in Whitespace
            /\ skipBlank(i + 3) <= Len(query)
            /\ query[skipBlank(i + 3)] \in Digits
        starts == {i \in 1..Len(query) : matchesAt(i)}
    IN  IF starts = {} THEN <<>>
        ELSE LET start == CHOOSE i \in starts : \A j \in starts : i <= j
                 d1    == skipBlank(start + 3)
                 nonD  == {j \in d1..Len(query) : query[j] \notin Digits}
                 dn    == IF nonD = {} THEN Len(query)
                          ELSE (CHOOSE j \in nonD : \A k \in nonD : j <= k) - 1
             IN  <<start, d1, dn>>

\* parseCommand with its mode, query, topK and threshold, before the query
\* vector is attached.
parseFields(text) ==
    LET low == toLowerCase(text)
    IN  IF startsWith(low, kwHide)
          THEN [mode |-> "hide", query |-> trim(substring(text, 5)),
                topK |-> DefaultTopK, threshold |-> DefaultThreshold]
        ELSE IF startsWith(low, kwRemove)
          THEN [mode |-> "hide", query |-> trim(substring(text, 7)),
                topK |-> DefaultTopK, threshold |-> DefaultThreshold]
        ELSE IF startsWith(low, kwShow) \/ startsWith(low, kwOnly)
          THEN LET startIdx == IF startsWith(low, kwShow) THEN 5 ELSE 5
                   q        == trim(substring(text, startIdx))
                   m        == topKMatch(q)
               IN  IF m # <<>>
                     THEN [mode |-> "show",
                           query |-> trim(SubSeq(q, 1, m[1] - 1)
                                          \o SubSeq(q, m[3] + 1, Len(q))),
                           topK |-> parseInt(SubSeq(q, m[2], m[3])),
                           threshold |-> DefaultThreshold]
                     ELSE [mode |-> "show", query |-> q,
                           topK |-> DefaultTopK, threshold |-> DefaultThreshold]
        ELSE IF includes(low, kwOnlyShow)
          THEN [mode |-> "show", query |-> trim(splitSecond(low, kwOnlyShow)),
                topK |-> DefaultTopK, threshold |-> DefaultThreshold]
        ELSE [mode |-> "hide", query |-> text,
              topK |-> DefaultTopK, threshold |-> DefaultThreshold]

\* parseCommand(command): Null for blank input, else the filter descriptor.
parseCommand(command) ==
    LET text == trim(command)
    IN  IF text = <<>> THEN Null
        ELSE LET f == parseFields(text)
             IN  [query |-> f.query, mode |-> f.mode,
                  queryVec |-> buildQueryVector(f.query),
                  topK |-> f.topK, threshold |-> f.threshold]

(***************************************************************************)
(* Relevance scoring                                                       *)
(***************************************************************************)

\* An argument of cosineSimilarity is [absent, elems]: absent for null or
\* undefined, else the vector's components.  The number it returns is
\* [kind, dot, norms], standing for dot / sqrt(norms) when kind is "number".
Zero == [kind |-> "number", dot |-> 0, norms |-> 1]

\* The sums of the loop of cosineSimilarity: sum of x[i] * y[i].
RECURSIVE sumProducts(_, _)
sumProducts(x, y) ==
    IF x = <<>> THEN 0
    ELSE x[1] * y[1] + sumProducts(Tail(x), Tail(y))

\* A cosineSimilarity without the zero-norm test: 0 / 0 is NaN.
cosineSimilarityNoNormTest(embedding1, embedding2) ==
    IF embedding1.absent \/ embedding2.absent THEN Zero
    ELSE IF Len(embedding1.elems) # Len(embedding2.elems) THEN Zero
    ELSE LET dotProduct == sumProducts(embedding1.elems, embedding2.elems)
             norm1      == sumProducts(embedding1.elems, embedding1.elems)
             norm2      == sumProducts(embedding2.elems, embedding2.elems)
         IN  IF norm1 = 0 \/ norm2 = 0
               THEN [kind |-> "NaN", dot |-> dotProduct, norms |-> 0]
               ELSE [kind |-> "number", dot |-> dotProduct,
                     norms |-> norm1 * norm2]

\* cosineSimilarity(embedding1, embedding2)
cosineSimilarity(embedding1, embedding2) ==
    IF embedding1.absent \/ embedding2.absent THEN Zero
    ELSE IF Len(embedding1.elems) # Len(embedding2.elems) THEN Zero
    ELSE LET dotProduct == sumProducts(embedding1.elems, embedding2.elems)
             norm1      == sumProducts(embedding1.elems, embedding1.elems)
             norm2      == sumProducts(embedding2.elems, embedding2.elems)
         IN  IF norm1 = 0 \/ norm2 = 0 THEN Zero
             ELSE [kind |-> "number", dot |-> dotProduct,
                   norms |-> norm1 * norm2]

\* cosineSimilarity of a context vector with a query vector is 0 when the
\* query vector has zero norm (the query had no tokens).
zeroNorm(queryVec) == queryVec = <<>>

\* A text field that is not a string: extractPosts takes obj.full_text ||
\* obj.text || obj.legacy?.full_text, any truthy JSON value (a number, an
\* object).  No string is this sequence, a string being one-character
\* elements.
NonStringText == <<"object">>

\* tokenize(text) throws a TypeError: text.toLowerCase is not a function.
tokenizeThrows(text) == text = NonStringText

\* The score attentionScore computes with Float32Array arithmetic for
\* tokenized text `words` against the query vector of `queryVec`, in
\* millionths rounded down, for the vocabulary of Posts and Commands.
scoreOf(words, queryVec) ==
    CASE words = <<<<"a">>>>          /\ queryVec = <<<<"a">>>> -> 1000000
      [] words = <<<<"c">>>>          /\ queryVec = <<<<"a">>>> -> -58043
      [] words = <<<<"a">>>>          /\ queryVec = <<<<"b">>>> -> 6357
      [] words = <<<<"c">>>>          /\ queryVec = <<<<"b">>>> -> -105407

\* AttentionRanker.attentionScore(text, queryVec).score
attentionScore(text, queryVec) ==
    LET words == tokenize(text)
    IN  IF words = <<>> THEN 0
        ELSE IF zeroNorm(queryVec) THEN 0
        ELSE scoreOf(words, queryVec)

(***************************************************************************)
(* Bounds and inputs                                                       *)
(***************************************************************************)

\* CONFIG.batchSize is 30 in the source; the model runs the same code with
\* a batch size small enough to enumerate.
batchSize == 2

\* Most messages the popup sends in one session.
MaxMessages == 2

\* Post records extractPosts can deliver: {id, text}.
Posts ==
    { [id |-> "p1", text |-> <<"a">>],
      [id |-> "p2", text |-> <<"c">>] }

RECURSIVE SeqsUpTo(_, _)
SeqsUpTo(S, n) ==
    IF n = 0 THEN {<<>>}
    ELSE LET shorter == SeqsUpTo(S, n - 1)
         IN  shorter \cup {Append(q, x) : q \in shorter, x \in S}

\* Most records in one response.
ArrivalLen == Cardinality(Posts)

\* Non-empty lists of post records one response can carry (a record may
\* repeat within a response).
Arrivals == SeqsUpTo(Posts, ArrivalLen) \ {<<>>}

\* Command texts of the addFilter messages the handler receives; the last
\* is whitespace only.
Commands ==
    { kwHide \o <<"a">>,
      kwShow \o kwTop \o <<" ", "1", " ", "b">>,
      <<" ">> }

\* Delay of setTimeout(processBatch, 500).
IdleDelay == 500

\* Time the armed timer can have run when a later arrival finds it armed:
\* none (the arrivals come together), or half its delay.
Elapsed == {0, IdleDelay \div 2}

\* A saved {query, mode, topK, threshold} tuple.
savedTuple(query, mode, topK, threshold) ==
    [query |-> query, mode |-> mode, topK |-> topK, threshold |-> threshold]

\* filterMetadata found in chrome.storage.local when the session starts:
\* one tuple saved earlier.
InitialStorage ==
    { << savedTuple(<<"a">>, "hide", DefaultTopK, DefaultThreshold) >> }

\* A larger feed for the filtering pass: two posts have the same tokens
\* and so the same score against every query.
PostsPass ==
    Posts \cup { [id |-> "p3", text |-> <<"A">>] }

ArrivalsPass == SeqsUpTo(PostsPass, ArrivalLen) \ {<<>>}

\* Responses of up to one record more than a batch holds.
ArrivalsLive == SeqsUpTo(PostsPass, batchSize + 1) \ {<<>>}

\* Saved metadata the filtering pass is studied with.  A saved query that
\* begins with "show " is the query of a filter created by a command such
\* as "show top 1 show b"; the threshold 0 is supplied by the storage
\* collaborator (no command sets it).
InitialStoragePass ==
    { <<>>,
      << savedTuple(kwShow \o <<"a">>, "show", 0, DefaultThreshold) >>,
      << savedTuple(kwShow \o <<"a">>, "show", 1, DefaultThreshold) >>,
      << savedTuple(kwShow \o <<"b">>, "show", 2, DefaultThreshold) >>,
      << savedTuple(kwShow \o <<"b">>, "show", DefaultTopK, DefaultThreshold) >>,
      << savedTuple(kwShow \o <<"b">>, "show", 1, DefaultThreshold),
         savedTuple(<<"a">>, "hide", DefaultTopK, 0) >>,
      << savedTuple(<<"a">>, "hide", DefaultTopK, DefaultThreshold),
         savedTuple(kwShow \o <<"b">>, "show", 1, DefaultThreshold) >>,
      << savedTuple(<<"a">>, "hide", DefaultTopK, DefaultThreshold),
         savedTuple(<<"b">>, "hide", DefaultTopK, 0) >>,
      << savedTuple(<<"a">>, "hide", DefaultTopK, DefaultThreshold) >> }

\* A feed with a record whose text is not a string.
PostsFault ==
    Posts \cup { [id |-> "p4", text |-> NonStringText] }

ArrivalsFault == SeqsUpTo(PostsFault, ArrivalLen) \ {<<>>}

\* Saved metadata the faulting pass is studied with.
InitialStorageFault ==
    { <<>>,
      << savedTuple(<<"a">>, "hide", DefaultTopK, DefaultThreshold) >>,
      << savedTuple(<<"a">>, "hide", DefaultTopK, DefaultThreshold),
         savedTuple(kwShow \o <<"b">>, "show", 1, DefaultThreshold) >> }

\* embedDim is 128 in the source; vectors of the model have at most MaxDim
\* components, each in Components.
MaxDim == 2

Components == {-1, 0, 1}

\* Arguments of cosineSimilarity: null, or a vector of up to MaxDim
\* components.
Embeddings ==
    { [absent |-> TRUE, elems |-> <<>>] }
    \cup { [absent |-> FALSE, elems |-> v] : v \in SeqsUpTo(Components, MaxDim) }

\* Command texts the command interpreter is studied with: a leading
\* keyword (or none) followed by a query text.
CommandPrefixes ==
    { <<>>, kwHide, <<"H", "i", "d", "e", " ">>, kwRemove, kwShow, kwOnly,
      kwOnlyShow, <<"d", "o", " ">> \o kwOnlyShow }

CommandBodies ==
    { <<"a">>,
      <<"a", "i", " ", "n", "e", "w", "s">>,
      kwTop \o <<" ", "1", "0", " ", "t", "e", "c", "h">>,
      <<"T", "o", "p", " ", "5", " ", "b">>,
      <<"l", "a", "p">> \o kwTop \o <<" ", "3", " ", "b">>,
      kwHide \o <<"a">>,
      kwShow \o <<"a">>,
      <<" ">> }

ParseCommands == {prefix \o body : prefix \in CommandPrefixes, body \in CommandBodies}

(***************************************************************************)
(* State                                                                   *)
(***************************************************************************)

VARIABLES
    filters,         \* state.filters, in insertion order
    processedPosts,  \* state.processedPosts: the Map's entries in insertion
                     \* order, each [id, text, hidden]
    postBatch,       \* state.postBatch: the pending buffer
    stats,           \* state.stats: [processed, hidden]
    enabled,         \* state.enabled
    batchTimeout,    \* TRUE while the timer of state.batchTimeout is armed
    storage,         \* filterMetadata in chrome.storage.local (<<>>: none)
    storageQ,        \* awaited chrome.storage operations, oldest first, each
                     \* with the handler that resumes when it completes
    pass,            \* the applyRankedFiltering call on the stack, if any:
                     \* idx is the filter the loop is at, caller the function
                     \* that called it, trigger and atTrigger what made
                     \* processBatch run and the buffer it found, meta the
                     \* caller's local filterMetadata
    reported,        \* value of the last hiddenCount message (-1: none yet)
    sent,            \* number of messages the popup has sent
    rt,              \* a filter's create / save / restore round trip
    timeLeft,        \* time the armed timer still had to run at the most
                     \* recent arrival (0 while no timer is armed)
    response,        \* the last sendResponse of the message handler
    lastPass,        \* outcome of the last completed pass, kept while the
                     \* filter list, the known posts and their visibility
                     \* are as that pass left them
    cos,             \* one call of cosineSimilarity: arguments and result
    tok,             \* calls of tokenIdFor on one word: the word, the ids
                     \* returned so far
    rendered         \* ids of the posts whose article is hidden in the
                     \* document (display none, data-xfc-hidden)

vars == <<filters, processedPosts, postBatch, stats, enabled, batchTimeout,
          storage, storageQ, pass, reported, sent, rt, timeLeft, response,
          lastPass, cos, tok, rendered>>

\* No applyRankedFiltering call is running.
NoPass == [active |-> FALSE, idx |-> 0, caller |-> "none", trigger |-> "none",
           atTrigger |-> <<>>, meta |-> <<>>]

\* No round trip is being followed.
NoRoundTrip == [pc |-> "off", command |-> <<>>, created |-> Null,
                saved |-> <<>>, restored |-> <<>>]

\* The handler has sent no response yet.
NoResponse == [to |-> "none", success |-> FALSE, filters |-> <<>>,
               error |-> ""]

\* sendResponse({ success: true, filters }) and sendResponse({ success:
\* true }) (filters empty), to the message of type `to`.
successResponse(to, meta) ==
    [to |-> to, success |-> TRUE, filters |-> meta, error |-> ""]

\* sendResponse({ success: false, error })
errorResponse(to, error) ==
    [to |-> to, success |-> FALSE, filters |-> <<>>, error |-> error]

\* No pass has completed since the filters or the posts last changed.
NoLastPass == [fresh |-> FALSE, hidden |-> <<>>, count |-> -1]

\* The visibility and the hidden count a pass ends with.
passOutcome(pp, count) ==
    [fresh |-> TRUE, hidden |-> [i \in 1..Len(pp) |-> pp[i].hidden],
     count |-> count]

(***************************************************************************)
(* Token ids: hash32 and tokenIdFor                                        *)
(*                                                                         *)
(* A 32-bit word is the record [hi, lo] of its two 16-bit halves, so that  *)
(* every intermediate value stays inside the integers TLC can hold.        *)
(***************************************************************************)

\* const vocabSize = 8192
vocabSize == 8192

Half == 65536

\* str.charCodeAt(i) for the characters of the model's words.
charCodeAt(c) ==
    CASE c = "0" -> 48
      [] c = "a" -> 97
      [] c = "b" -> 98
      [] c = "c" -> 99
      [] c = "z" -> 122

\* Bitwise exclusive or of the n low bits of a and b.
RECURSIVE xorBits(_, _, _)
xorBits(a, b, n) ==
    IF n = 0
    THEN 0
    ELSE (((a % 2) + (b % 2)) % 2) + 2 * xorBits(a \div 2, b \div 2, n - 1)

\* h ^= code, for a code unit below 2^16: only the low half changes.
xorCode(h, code) == [hi |-> h.hi, lo |-> xorBits(h.lo, code, 16)]

\* 2166136261 >>> 0, that is 0x811C9DC5.
offsetBasis == [hi |-> 33052, lo |-> 40389]

\* Math.imul(h, 16777619): the low 32 bits of the product.  16777619 is
\* 2^24 + 403, so the product is (h << 24) + h * 403 modulo 2^32.
imulPrime(h) ==
    LET low == h.lo * 403
    IN  [hi |-> (h.hi * 403 + (low \div Half) + (h.lo % 256) * 256) % Half,
         lo |-> low % Half]

\* The loop of hash32 from character i on, h being the running value.
RECURSIVE hashFrom(_, _, _)
hashFrom(str, i, h) ==
    IF i > Len(str)
    THEN h
    ELSE hashFrom(str, i + 1, imulPrime(xorCode(h, charCodeAt(str[i]))))

\* hash32(str): the bits of the returned h >>> 0.
hash32(str) == hashFrom(str, 1, offsetBasis)

\* u % n for the unsigned value u = hi * 2^16 + lo of a 32-bit word.
unsignedRemainder(h, n) == ((h.hi % n) * (Half % n) + h.lo) % n

\* v % n in JavaScript for the signed value v of a 32-bit word: the
\* remainder takes the sign of v.
signedRemainder(h, n) ==
    IF h.hi < Half \div 2
    THEN unsignedRemainder(h, n)
    ELSE LET wrap == ((Half % n) * (Half % n)) % n   \* 2^32 % n
         IN  0 - ((wrap + n - unsignedRemainder(h, n)) % n)

\* tokenIdFor with hash32 returning h instead of h >>> 0.
tokenIdForSigned(word) == signedRemainder(hash32(word), vocabSize)

\* tokenIdFor(word): hash32(word) % vocabSize
tokenIdFor(word) == unsignedRemainder(hash32(word), vocabSize)

\* Words hashed in the model, and the number of calls made on one word.
MaxWordLen == 3
MaxCalls == 2
WordChars == {"0", "a", "b", "c", "z"}
Words == SeqsUpTo(WordChars, MaxWordLen)

\* tokenIdFor is not being called.
NoTokenCall == [word |-> <<>>, ids |-> <<>>]

\* cosineSimilarity is not being called.
NoCosine == [pc |-> "off", embedding1 |-> [absent |-> TRUE, elems |-> <<>>],
             embedding2 |-> [absent |-> TRUE, elems |-> <<>>],
             result |-> Zero]

(***************************************************************************)
(* Helpers over the program's collections                                  *)
(***************************************************************************)

\* The keys of state.processedPosts.
knownIds(pp) == {pp[i].id : i \in 1..Len(pp)}

\* processedPosts.has(post.id)
hasPost(pp, id) == id \in knownIds(pp)

\* processedPosts.set(post.id, {text, hidden: false}): an existing key keeps
\* its place in the iteration order, a new key goes last.
mapSet(pp, post) ==
    LET entry == [id |-> post.id, text |-> post.text, hidden |-> FALSE]
    IN  IF hasPost(pp, post.id)
          THEN [i \in 1..Len(pp) |-> IF pp[i].id = post.id THEN entry ELSE pp[i]]
          ELSE Append(pp, entry)

\* The loop of processBatch over the drained batch.
RECURSIVE cacheBatch(_, _)
cacheBatch(pp, batch) ==
    IF batch = <<>> THEN pp
    ELSE cacheBatch(mapSet(pp, Head(batch)), Tail(batch))

\* A "show all posts" loop that leaves the marks as they are.
showAllKeepingMarks(pp) == pp

\* "Show all posts": every hidden entry is shown and marked visible.
showAll(pp) == [i \in 1..Len(pp) |-> [pp[i] EXCEPT !.hidden = FALSE]]

\* A count loop that counts every known post.
countKnown(pp) == Len(pp)

\* The count loop that ends applyRankedFiltering.
countHidden(pp) == Cardinality({i \in 1..Len(pp) : pp[i].hidden})

\* state.filters.map(f => ({query, mode, topK, threshold}))
filterMetadata(fs) ==
    [i \in 1..Len(fs) |-> [query |-> fs[i].query, mode |-> fs[i].mode,
                           topK |-> fs[i].topK, threshold |-> fs[i].threshold]]

\* One iteration of init's restore loop: the saved query is parsed as a
\* command, then topK and threshold are taken from the saved tuple.
restoreOne(meta) ==
    LET f == parseCommand(meta.query)
    IN  IF f = Null THEN <<>>
        ELSE << [f EXCEPT !.topK = meta.topK, !.threshold = meta.threshold] >>

\* init's restore loop over stored.filterMetadata.
RECURSIVE restoreFilters(_)
restoreFilters(stored) ==
    IF stored = <<>> THEN <<>>
    ELSE restoreOne(Head(stored)) \o restoreFilters(Tail(stored))

(***************************************************************************)
(* The document: hidePost and showPost                                     *)
(***************************************************************************)

\* The ids hidden in the document after the animation frame that follows a
\* task.  The task took the marks from `before` to `after`; it called
\* showPost for every post whose mark it cleared and hidePost for every post
\* whose mark it set, and each callback runs at that frame: showPost's
\* displays the article, hidePost's hides it unless state.enabled is false
\* by then (`on` is state.enabled at the frame).
applyEffects(hiddenIds, before, after, on) ==
    LET changed(from, to) ==
            { before[i].id : i \in { j \in 1..Len(before) :
                                        /\ before[j].hidden = from
                                        /\ after[j].hidden = to } }
    IN  (hiddenIds \ changed(TRUE, FALSE))
            \cup (IF on THEN changed(FALSE, TRUE) ELSE {})

(***************************************************************************)
(* Ranked filtering: one filter of the pass                                *)
(***************************************************************************)

\* similarities, before sorting: the score of each known post, in iteration
\* order.
similarities(filter, pp) ==
    [i \in 1..Len(pp) |-> attentionScore(pp[i].text, filter.queryVec)]

\* similarities.sort((a, b) => b.similarity - a.similarity): the positions
\* of the known posts by score descending; the sort is stable, so equal
\* scores keep their iteration order.
sortDescending(sims) ==
    LET before(i, j) == sims[i] > sims[j] \/ (sims[i] = sims[j] /\ i < j)
        rank(i) == Cardinality({j \in 1..Len(sims) : before(j, i)})
    IN  [k \in 1..Len(sims) |-> CHOOSE i \in 1..Len(sims) : rank(i) = k - 1]

\* Value of the fallback in filter.topK || 20.
FallbackTopK == 20

\* const topK = filter.topK || 20
effectiveTopK(filter) == IF filter.topK = 0 THEN FallbackTopK ELSE filter.topK

\* new Set(similarities.slice(0, topK).map(s => s.postId)), as positions.
topPosts(filter, pp) ==
    LET sorted == sortDescending(similarities(filter, pp))
        k      == effectiveTopK(filter)
    IN  {sorted[n] : n \in 1..(IF k < Len(pp) THEN k ELSE Len(pp))}

\* A hide branch that decides every post: below the threshold, visible.
applyHideExhaustive(filter, pp) ==
    LET sims == similarities(filter, pp)
    IN  [i \in 1..Len(pp) |->
            [pp[i] EXCEPT !.hidden = (sims[i] >= filter.threshold)]]

\* A hide branch that toggles the mark of the posts it reaches.
applyHideToggling(filter, pp) ==
    LET sims == similarities(filter, pp)
    IN  [i \in 1..Len(pp) |->
            IF sims[i] >= filter.threshold
              THEN [pp[i] EXCEPT !.hidden = ~pp[i].hidden]
              ELSE pp[i]]

\* The hide branch: every post scoring at least the threshold is hidden.
applyHide(filter, pp) ==
    LET sims == similarities(filter, pp)
    IN  [i \in 1..Len(pp) |->
            IF sims[i] >= filter.threshold /\ ~pp[i].hidden
              THEN [pp[i] EXCEPT !.hidden = TRUE]
              ELSE pp[i]]

\* A show branch that hides the other posts but shows no hidden post.
applyShowHidingOnly(filter, pp) ==
    LET top == topPosts(filter, pp)
    IN  [i \in 1..Len(pp) |->
            [pp[i] EXCEPT !.hidden = (pp[i].hidden \/ i \notin top)]]

\* The show branch: the top posts are shown, every other post is hidden.
applyShow(filter, pp) ==
    LET top == topPosts(filter, pp)
    IN  [i \in 1..Len(pp) |-> [pp[i] EXCEPT !.hidden = (i \notin top)]]

\* The body of the loop over state.filters.
applyFilter(filter, pp) ==
    IF filter.mode = "hide" THEN applyHide(filter, pp)
    ELSE IF filter.mode = "show" THEN applyShow(filter, pp)
    ELSE pp

(***************************************************************************)
(* Scheduling                                                              *)
(***************************************************************************)

\* A pass that yields to the event loop between statements.
IdleWhileAwaiting == TRUE

\* applyRankedFiltering contains no await: from its first statement to its
\* hiddenCount message it stays on the stack, and the event loop dispatches
\* no other task (arrival, timer, message, storage completion) meanwhile.
Idle == ~pass.active

\* init has passed its await of chrome.storage.local.get and called
\* interceptNetworkRequests: responses are intercepted from then on.
Ready == \A i \in 1..Len(storageQ) : storageQ[i].kind # "init"

\* The call of applyRankedFiltering by `caller`: the pass is on the stack.
beginPass(caller, trigger, buffer) ==
    [active |-> TRUE, idx |-> 1, caller |-> caller, trigger |-> trigger,
     atTrigger |-> buffer, meta |-> <<>>]

(***************************************************************************)
(* Batching coordinator                                                    *)
(***************************************************************************)

\* postBatch.splice(0, CONFIG.batchSize): <<removed batch, what stays>>.
splice(buffer) ==
    LET n == IF Len(buffer) < batchSize THEN Len(buffer) ELSE batchSize
    IN  <<SubSeq(buffer, 1, n), SubSeq(buffer, n + 1, Len(buffer))>>

\* processBatch() with the pending buffer holding `buffer`.
processBatch(buffer, trigger) ==
    IF buffer = <<>>
      THEN /\ postBatch' = buffer
           /\ UNCHANGED <<processedPosts, stats, pass, lastPass>>
      ELSE LET cut   == splice(buffer)
               known == cacheBatch(processedPosts, cut[1])
           IN  /\ postBatch' = cut[2]
               /\ processedPosts' = known
               /\ stats' = [stats EXCEPT !.processed = @ + Len(cut[1])]
               /\ pass' = beginPass("processBatch", trigger, buffer)
               /\ lastPass' = NoLastPass

\* An arrival filter that drops nothing.
newPostsUnfiltered(posts) == posts

\* posts.filter(post => !state.processedPosts.has(post.id))
newPostsOf(posts) ==
    SelectSeq(posts, LAMBDA post : ~hasPost(processedPosts, post.id))

\* processPostData(data), with extractPosts(data) = posts.  In the size
\* branch the timer, if armed, is left as it is: by now it has run for some
\* time dt.
PostsArrive(posts) ==
    /\ Idle /\ Ready
    /\ newPostsOf(posts) # <<>>
    /\ LET buffer == postBatch \o newPostsOf(posts)
       IN  IF Len(buffer) >= batchSize
             THEN /\ processBatch(buffer, "size")
                  /\ UNCHANGED batchTimeout
                  /\ \E dt \in Elapsed :
                        /\ dt <= timeLeft
                        /\ timeLeft' = timeLeft - dt
             ELSE /\ postBatch' = buffer
                  /\ batchTimeout' = TRUE
                  /\ timeLeft' = IdleDelay
                  /\ UNCHANGED <<processedPosts, stats, pass, lastPass>>
    /\ UNCHANGED <<filters, enabled, storage, storageQ, reported, sent, rt,
                   response, cos, tok,
                   rendered>>

\* The timer set by setTimeout(processBatch, 500) fires, timeLeft after the
\* most recent arrival.
TimerFires ==
    /\ Idle
    /\ batchTimeout
    /\ batchTimeout' = FALSE
    /\ timeLeft' = 0
    /\ processBatch(postBatch, "idle")
    /\ UNCHANGED <<filters, enabled, storage, storageQ, reported, sent, rt,
                   response, cos, tok,
                   rendered>>

(***************************************************************************)
(* The filtering pass, statement by statement                              *)
(***************************************************************************)

\* The caller resumes after await applyRankedFiltering(): addFilter and
\* removeFilter answer with their filterMetadata, rescan and toggle with
\* success; processBatch answers nobody.
responseAfterPass ==
    IF pass.caller \in {"addFilter", "removeFilter"}
      THEN successResponse(pass.caller, pass.meta)
    ELSE IF pass.caller \in {"rescan", "toggle"}
      THEN successResponse(pass.caller, <<>>)
    ELSE response

\* Scoring the known posts throws: the loop over state.processedPosts
\* reaches a record whose text tokenize cannot take.
scoringThrows(pp) == \E i \in 1..Len(pp) : tokenizeThrows(pp[i].text)

\* applyRankedFiltering with no filters: show all posts, report 0.
PassShowAll ==
    /\ pass.active
    /\ Len(filters) = 0
    /\ processedPosts' = showAll(processedPosts)
    /\ stats' = [stats EXCEPT !.hidden = 0]
    /\ reported' = 0
    /\ pass' = NoPass
    /\ response' = responseAfterPass
    /\ lastPass' = passOutcome(showAll(processedPosts), 0)
    /\ UNCHANGED <<filters, postBatch, enabled, batchTimeout, storage,
                   storageQ, sent, rt, timeLeft, cos, tok>>
    /\ rendered' = applyEffects(rendered, processedPosts, processedPosts',
                                enabled')

\* One iteration of for (const filter of state.filters).
PassApplyFilter ==
    /\ pass.active
    /\ pass.idx <= Len(filters)
    /\ ~scoringThrows(processedPosts)
    /\ processedPosts' = applyFilter(filters[pass.idx], processedPosts)
    /\ pass' = [pass EXCEPT !.idx = @ + 1]
    /\ UNCHANGED <<filters, postBatch, stats, enabled, batchTimeout, storage,
                   storageQ, reported, sent, rt, timeLeft, response, lastPass,
                   cos, tok>>
    /\ rendered' = applyEffects(rendered, processedPosts, processedPosts',
                                enabled')

\* An iteration whose scoring loop throws: the error leaves
\* applyRankedFiltering.  addFilter catches it and answers with the error;
\* the promise of every other caller is rejected.
PassFault ==
    /\ pass.active
    /\ pass.idx <= Len(filters)
    /\ scoringThrows(processedPosts)
    /\ pass' = NoPass
    /\ response' = IF pass.caller = "addFilter"
                     THEN errorResponse("addFilter", "TypeError")
                     ELSE response
    /\ lastPass' = NoLastPass
    /\ UNCHANGED <<filters, processedPosts, postBatch, stats, enabled,
                   batchTimeout, storage, storageQ, reported, sent, rt,
                   timeLeft, cos, tok,
                   rendered>>

\* After the loop: count the hidden posts, store and report the count.
PassReport ==
    /\ pass.active
    /\ Len(filters) > 0
    /\ pass.idx > Len(filters)
    /\ stats' = [stats EXCEPT !.hidden = countHidden(processedPosts)]
    /\ reported' = countHidden(processedPosts)
    /\ pass' = NoPass
    /\ response' = responseAfterPass
    /\ lastPass' = passOutcome(processedPosts, countHidden(processedPosts))
    /\ UNCHANGED <<filters, processedPosts, postBatch, enabled, batchTimeout,
                   storage, storageQ, sent, rt, timeLeft, cos, tok,
                   rendered>>

(***************************************************************************)
(* Message handlers                                                        *)
(***************************************************************************)

\* The popup can send one more message.
CanSend == sent < MaxMessages

\* case 'addFilter', up to its await of chrome.storage.local.set, or to its
\* answer when parseCommand returns null.
AddFilter(command) ==
    /\ Idle
    /\ CanSend
    /\ sent' = sent + 1
    /\ IF parseCommand(command) = Null
         THEN /\ response' = errorResponse("addFilter", "Invalid command")
              /\ UNCHANGED <<filters, storageQ, lastPass>>
         ELSE LET fs == Append(filters, parseCommand(command))
              IN  /\ filters' = fs
                  /\ storageQ' = Append(storageQ, [kind |-> "addFilter",
                                                  meta |-> filterMetadata(fs)])
                  /\ lastPass' = NoLastPass
                  /\ UNCHANGED response
    /\ UNCHANGED <<processedPosts, postBatch, stats, enabled, batchTimeout,
                   storage, pass, reported, rt, timeLeft, cos, tok,
                   rendered>>

\* state.filters.filter((f, i) => i !== request.index), index from 0.
removeAt(fs, index) ==
    LET keep == {i \in 1..Len(fs) : i - 1 # index}
        pos(k) == CHOOSE i \in keep : Cardinality({j \in keep : j < i}) = k - 1
    IN  [k \in 1..Cardinality(keep) |-> fs[pos(k)]]

\* case 'removeFilter', up to its await of chrome.storage.local.set.
RemoveFilter(index) ==
    /\ Idle
    /\ CanSend
    /\ sent' = sent + 1
    /\ LET fs == removeAt(filters, index)
       IN  /\ filters' = fs
           /\ storageQ' = Append(storageQ, [kind |-> "removeFilter",
                                           meta |-> filterMetadata(fs)])
    /\ lastPass' = NoLastPass
    /\ UNCHANGED <<processedPosts, postBatch, stats, enabled, batchTimeout,
                   storage, pass, reported, rt, timeLeft, response, cos, tok,
                   rendered>>

\* case 'reset', up to its await of chrome.storage.local.clear.
Reset ==
    /\ Idle
    /\ CanSend
    /\ sent' = sent + 1
    /\ filters' = <<>>
    /\ stats' = [processed |-> 0, hidden |-> 0]
    /\ storageQ' = Append(storageQ, [kind |-> "reset", meta |-> <<>>])
    /\ lastPass' = NoLastPass
    /\ UNCHANGED <<processedPosts, postBatch, enabled, batchTimeout, storage,
                   pass, reported, rt, timeLeft, response, cos, tok,
                   rendered>>

\* case 'rescan'
Rescan ==
    /\ Idle
    /\ CanSend
    /\ sent' = sent + 1
    /\ pass' = beginPass("rescan", "none", <<>>)
    /\ UNCHANGED <<filters, processedPosts, postBatch, stats, enabled,
                   batchTimeout, storage, storageQ, reported, rt, timeLeft,
                   response, lastPass, cos, tok,
                   rendered>>

\* case 'toggle'
Toggle(on) ==
    /\ Idle
    /\ CanSend
    /\ sent' = sent + 1
    /\ enabled' = on
    /\ IF ~on
         THEN /\ processedPosts' = showAll(processedPosts)
              /\ stats' = [stats EXCEPT !.hidden = 0]
              /\ reported' = 0
              /\ response' = successResponse("toggle", <<>>)
              /\ lastPass' = NoLastPass
              /\ UNCHANGED pass
         ELSE /\ pass' = beginPass("toggle", "none", <<>>)
              /\ UNCHANGED <<processedPosts, stats, reported, response,
                             lastPass>>
    /\ UNCHANGED <<filters, postBatch, batchTimeout, storage, storageQ, rt,
                   timeLeft, cos, tok>>
    /\ rendered' = applyEffects(rendered, processedPosts, processedPosts',
                                enabled')

\* The oldest awaited chrome.storage operation completes and its handler
\* resumes: init restores the saved filters; addFilter and removeFilter
\* call applyRankedFiltering; reset shows all posts and answers.
StorageCompletes ==
    /\ Idle
    /\ storageQ # <<>>
    /\ storageQ' = Tail(storageQ)
    /\ LET op == Head(storageQ)
       IN  CASE op.kind = "init" ->
                  /\ filters' = filters \o restoreFilters(storage)
                  /\ lastPass' = NoLastPass
                  /\ UNCHANGED <<processedPosts, storage, pass, reported,
                                 response>>
             [] op.kind \in {"addFilter", "removeFilter"} ->
                  /\ storage' = op.meta
                  /\ pass' = [beginPass(op.kind, "none", <<>>)
                                EXCEPT !.meta = op.meta]
                  /\ UNCHANGED <<filters, processedPosts, reported, response,
                                 lastPass>>
             [] op.kind = "reset" ->
                  /\ storage' = <<>>
                  /\ processedPosts' = showAll(processedPosts)
                  /\ reported' = 0
                  /\ response' = successResponse("reset", <<>>)
                  /\ lastPass' = NoLastPass
                  /\ UNCHANGED <<filters, pass>>
    /\ UNCHANGED <<postBatch, stats, enabled, batchTimeout, sent, rt,
                   timeLeft, cos, tok>>
    /\ rendered' = applyEffects(rendered, processedPosts, processedPosts',
                                enabled')

\* One call cosineSimilarity(embedding1, embedding2).
CallCosineSimilarity ==
    /\ cos.pc = "call"
    /\ cos' = [cos EXCEPT !.result = cosineSimilarity(cos.embedding1,
                                                     cos.embedding2),
                          !.pc = "done"]
    /\ UNCHANGED <<filters, processedPosts, postBatch, stats, enabled,
                   batchTimeout, storage, storageQ, pass, reported, sent, rt,
                   timeLeft, response, lastPass, tok, rendered>>

\* One call tokenIdFor(word).
CallTokenIdFor ==
    /\ Len(tok.ids) < MaxCalls
    /\ tok' = [tok EXCEPT !.ids = Append(@, tokenIdFor(tok.word))]
    /\ UNCHANGED <<filters, processedPosts, postBatch, stats, enabled,
                   batchTimeout, storage, storageQ, pass, reported, sent, rt,
                   timeLeft, response, lastPass, cos, rendered>>

(***************************************************************************)
(* A filter's round trip: created by a command, saved, restored            *)
(***************************************************************************)

\* case 'addFilter': const filter = await parseCommand(request.command)
CreateFilter ==
    /\ rt.pc = "command"
    /\ rt' = [rt EXCEPT !.created = parseCommand(rt.command),
                        !.pc = IF parseCommand(rt.command) = Null
                                 THEN "invalid" ELSE "created"]
    /\ UNCHANGED <<filters, processedPosts, postBatch, stats, enabled,
                   batchTimeout, storage, storageQ, pass, reported, sent,
                   timeLeft, response, lastPass, cos, tok,
                   rendered>>

\* case 'addFilter': the filter's metadata as chrome.storage.local.set
\* receives it.
SaveMetadata ==
    /\ rt.pc = "created"
    /\ rt' = [rt EXCEPT !.saved = filterMetadata(<<rt.created>>),
                        !.pc = "saved"]
    /\ UNCHANGED <<filters, processedPosts, postBatch, stats, enabled,
                   batchTimeout, storage, storageQ, pass, reported, sent,
                   timeLeft, response, lastPass, cos, tok,
                   rendered>>

\* init of the next session: the restore loop over the saved metadata.
RestoreFilter ==
    /\ rt.pc = "saved"
    /\ rt' = [rt EXCEPT !.restored = restoreFilters(rt.saved),
                        !.pc = "restored"]
    /\ UNCHANGED <<filters, processedPosts, postBatch, stats, enabled,
                   batchTimeout, storage, storageQ, pass, reported, sent,
                   timeLeft, response, lastPass, cos, tok,
                   rendered>>

(***************************************************************************)
(* Specifications                                                          *)
(***************************************************************************)

\* The content script has been evaluated: init awaits the stored metadata.
Init ==
    /\ filters = <<>>
    /\ processedPosts = <<>>
    /\ postBatch = <<>>
    /\ stats = [processed |-> 0, hidden |-> 0]
    /\ enabled = TRUE
    /\ batchTimeout = FALSE
    /\ storage \in InitialStorage
    /\ storageQ = <<[kind |-> "init", meta |-> <<>>]>>
    /\ pass = NoPass
    /\ reported = -1
    /\ sent = 0
    /\ rt = NoRoundTrip
    /\ timeLeft = 0
    /\ response = NoResponse
    /\ lastPass = NoLastPass
    /\ cos = NoCosine
    /\ tok = NoTokenCall
    /\ rendered = {}

Next ==
    \/ \E posts \in Arrivals : PostsArrive(posts)
    \/ TimerFires
    \/ PassShowAll
    \/ PassApplyFilter
    \/ PassReport
    \/ \E command \in Commands : AddFilter(command)
    \/ \E index \in 0..(Len(filters) - 1) : RemoveFilter(index)
    \/ Reset
    \/ Rescan
    \/ \E on \in BOOLEAN : Toggle(on)
    \/ StorageCompletes

Spec == Init /\ [][Next]_vars

\* The filtering pass over a larger feed, with the filters restored from
\* saved metadata and no filter commands.
InitPass ==
    /\ filters = <<>>
    /\ processedPosts = <<>>
    /\ postBatch = <<>>
    /\ stats = [processed |-> 0, hidden |-> 0]
    /\ enabled = TRUE
    /\ batchTimeout = FALSE
    /\ storage \in InitialStoragePass
    /\ storageQ = <<[kind |-> "init", meta |-> <<>>]>>
    /\ pass = NoPass
    /\ reported = -1
    /\ sent = 0
    /\ rt = NoRoundTrip
    /\ timeLeft = 0
    /\ response = NoResponse
    /\ lastPass = NoLastPass
    /\ cos = NoCosine
    /\ tok = NoTokenCall
    /\ rendered = {}

NextPass ==
    \/ \E posts \in ArrivalsPass : PostsArrive(posts)
    \/ TimerFires
    \/ PassShowAll
    \/ PassApplyFilter
    \/ PassReport
    \/ Rescan
    \/ StorageCompletes

SpecPass == InitPass /\ [][NextPass]_vars

\* The command interpreter and the persistence round trip of one filter.
InitParse ==
    /\ filters = <<>>
    /\ processedPosts = <<>>
    /\ postBatch = <<>>
    /\ stats = [processed |-> 0, hidden |-> 0]
    /\ enabled = TRUE
    /\ batchTimeout = FALSE
    /\ storage = <<>>
    /\ storageQ = <<>>
    /\ pass = NoPass
    /\ reported = -1
    /\ sent = 0
    /\ \E command \in ParseCommands :
          rt = [pc |-> "command", command |-> command, created |-> Null,
                saved |-> <<>>, restored |-> <<>>]
    /\ timeLeft = 0
    /\ response = NoResponse
    /\ lastPass = NoLastPass
    /\ cos = NoCosine
    /\ tok = NoTokenCall
    /\ rendered = {}

NextParse ==
    \/ CreateFilter
    \/ SaveMetadata
    \/ RestoreFilter

SpecParse == InitParse /\ [][NextParse]_vars

\* The filtering pass over a feed with a record whose text is not a string.
InitFault ==
    /\ filters = <<>>
    /\ processedPosts = <<>>
    /\ postBatch = <<>>
    /\ stats = [processed |-> 0, hidden |-> 0]
    /\ enabled = TRUE
    /\ batchTimeout = FALSE
    /\ storage \in InitialStorageFault
    /\ storageQ = <<[kind |-> "init", meta |-> <<>>]>>
    /\ pass = NoPass
    /\ reported = -1
    /\ sent = 0
    /\ rt = NoRoundTrip
    /\ timeLeft = 0
    /\ response = NoResponse
    /\ lastPass = NoLastPass
    /\ cos = NoCosine
    /\ tok = NoTokenCall
    /\ rendered = {}

NextFault ==
    \/ \E posts \in ArrivalsFault : PostsArrive(posts)
    \/ TimerFires
    \/ PassShowAll
    \/ PassApplyFilter
    \/ PassFault
    \/ PassReport
    \/ Rescan
    \/ StorageCompletes

SpecFault == InitFault /\ [][NextFault]_vars

\* Calls of cosineSimilarity.
InitCosine ==
    /\ filters = <<>>
    /\ processedPosts = <<>>
    /\ postBatch = <<>>
    /\ stats = [processed |-> 0, hidden |-> 0]
    /\ enabled = TRUE
    /\ batchTimeout = FALSE
    /\ storage = <<>>
    /\ storageQ = <<>>
    /\ pass = NoPass
    /\ reported = -1
    /\ sent = 0
    /\ rt = NoRoundTrip
    /\ timeLeft = 0
    /\ response = NoResponse
    /\ lastPass = NoLastPass
    /\ \E embedding1 \in Embeddings, embedding2 \in Embeddings :
          cos = [pc |-> "call", embedding1 |-> embedding1,
                 embedding2 |-> embedding2, result |-> Zero]
    /\ tok = NoTokenCall
    /\ rendered = {}

NextCosine == CallCosineSimilarity

SpecCosine == InitCosine /\ [][NextCosine]_vars

\* Arrivals and the passes they start, with the scheduling the event loop
\* guarantees: an armed timer fires, a started pass runs to its end, an
\* awaited storage operation completes.  No arrival is ever required.
InitLive == Init

NextLive ==
    \/ \E posts \in ArrivalsLive : PostsArrive(posts)
    \/ TimerFires
    \/ PassApplyFilter
    \/ PassReport
    \/ StorageCompletes

SpecLive ==
    /\ InitLive
    /\ [][NextLive]_vars
    /\ WF_vars(TimerFires)
    /\ WF_vars(PassApplyFilter)
    /\ WF_vars(PassReport)
    /\ WF_vars(StorageCompletes)

\* tokenIdFor called on one word.
InitHash ==
    /\ filters = <<>>
    /\ processedPosts = <<>>
    /\ postBatch = <<>>
    /\ stats = [processed |-> 0, hidden |-> 0]
    /\ enabled = TRUE
    /\ batchTimeout = FALSE
    /\ storage = <<>>
    /\ storageQ = <<>>
    /\ pass = NoPass
    /\ reported = -1
    /\ sent = 0
    /\ rt = NoRoundTrip
    /\ timeLeft = 0
    /\ response = NoResponse
    /\ lastPass = NoLastPass
    /\ cos = NoCosine
    /\ \E word \in Words : tok = [word |-> word, ids |-> <<>>]
    /\ rendered = {}

NextHash == CallTokenIdFor

SpecHash == InitHash /\ [][NextHash]_vars

(***************************************************************************)
(* Properties                                                              *)
(***************************************************************************)

\* Every filter of the running pass has been applied; the count and the
\* hiddenCount message are still to come.
Decided == pass.active /\ Len(filters) > 0 /\ pass.idx > Len(filters)

\* Positions of the known posts marked visible.
visiblePosts == {i \in 1..Len(processedPosts) : ~processedPosts[i].hidden}

\* Post i comes before post j under "relevance descending, ties in
\* iteration order" for the filter.
ranksBefore(filter, i, j) ==
    LET si == attentionScore(processedPosts[i].text, filter.queryVec)
        sj == attentionScore(processedPosts[j].text, filter.queryVec)
    IN  si > sj \/ (si = sj /\ i < j)

\* C1: after a pass whose filter list is one show-mode filter with
\* topK = K over N known posts, 0 <= K <= N, exactly K posts are visible and
\* N - K hidden, and the visible posts are the first K by relevance
\* descending with ties in iteration order.
ShowModeExhaustive ==
    (/\ Decided
     /\ Len(filters) = 1
     /\ filters[1].mode = "show"
     /\ filters[1].topK <= Len(processedPosts))
    => /\ Cardinality(visiblePosts) = filters[1].topK
       /\ countHidden(processedPosts) = Len(processedPosts) - filters[1].topK
       /\ \A v \in visiblePosts :
            \A h \in (1..Len(processedPosts)) \ visiblePosts :
               ranksBefore(filters[1], v, h)

\* A filter touches a post: a show filter touches every known post, a hide
\* filter the posts whose relevance reaches its threshold.
touches(filter, i) ==
    \/ filter.mode = "show"
    \/ /\ filter.mode = "hide"
       /\ attentionScore(processedPosts[i].text, filter.queryVec)
            >= filter.threshold

\* What a filter that touches post i decides for it: TRUE for hidden.  A
\* show filter hides the post unless fewer than its top-K count of posts
\* rank before it.
decidesHidden(filter, i) ==
    IF filter.mode = "hide" THEN TRUE
    ELSE Cardinality({j \in 1..Len(processedPosts) : ranksBefore(filter, j, i)})
            >= effectiveTopK(filter)

\* C2: when every filter of a pass has been applied, the visibility of each
\* post some filter touched is the decision of the last filter, in
\* insertion order, that touched it.
LastWriterWins ==
    Decided =>
      \A i \in 1..Len(processedPosts) :
         LET touching == {k \in 1..Len(filters) : touches(filters[k], i)}
         IN  touching # {} =>
               LET last == CHOOSE k \in touching : \A m \in touching : m <= k
               IN  processedPosts[i].hidden = decidesHidden(filters[last], i)

\* C2, witness: F1 = (show, topK 1) then F2 = (hide, threshold 0) have been
\* applied to two posts; F1 showed the first post and hid the second, F2
\* then touched and hid the first only.
WitnessLastWriterWins ==
    /\ Decided
    /\ Len(filters) = 2
    /\ filters[1].mode = "show" /\ filters[1].topK = 1
    /\ filters[2].mode = "hide" /\ filters[2].threshold = 0
    /\ Len(processedPosts) = 2
    /\ touches(filters[2], 1) /\ ~touches(filters[2], 2)
    /\ ~decidesHidden(filters[1], 1)
    /\ processedPosts[1].hidden /\ processedPosts[2].hidden

\* C3: applying one hide-mode filter with threshold T marks hidden every
\* known post whose relevance is at least T, leaves the visibility of every
\* post below T as it was, and turns no hidden post visible.
HideFilterFrame ==
    [][ (/\ pass.active
         /\ pass.idx <= Len(filters)
         /\ filters[pass.idx].mode = "hide"
         /\ pass'.idx = pass.idx + 1)
        => /\ Len(processedPosts') = Len(processedPosts)
           /\ \A i \in 1..Len(processedPosts) :
                LET r == attentionScore(processedPosts[i].text,
                                        filters[pass.idx].queryVec)
                IN  /\ r >= filters[pass.idx].threshold
                         => processedPosts'[i].hidden
                    /\ r < filters[pass.idx].threshold
                         => processedPosts'[i].hidden = processedPosts[i].hidden
                    /\ processedPosts[i].hidden => processedPosts'[i].hidden
      ]_vars

\* Ids of the post records in a buffer.
idsOf(buffer) == {buffer[k].id : k \in 1..Len(buffer)}

\* C3, witness: in a pass started by processBatch a hide filter has just
\* been applied; a post of an earlier batch that reaches the threshold is
\* hidden, and a post below the threshold that an earlier show filter hid
\* is still hidden.
WitnessHideFilterFrame ==
    /\ pass.active
    /\ pass.caller = "processBatch"
    /\ pass.idx = 3
    /\ filters[1].mode = "show"
    /\ filters[2].mode = "hide"
    /\ \E i \in 1..Len(processedPosts) :
          /\ processedPosts[i].id \notin idsOf(pass.atTrigger)
          /\ touches(filters[2], i)
          /\ processedPosts[i].hidden
    /\ \E j \in 1..Len(processedPosts) :
          /\ ~touches(filters[2], j)
          /\ decidesHidden(filters[1], j)
          /\ processedPosts[j].hidden

\* C4: a post id is ingested at most once: the pending buffer never holds
\* an id twice nor an id already known, and no id is counted as processed
\* more than once.
IngestedOnce ==
    /\ \A k, m \in 1..Len(postBatch) : postBatch[k].id = postBatch[m].id => k = m
    /\ idsOf(postBatch) \cap knownIds(processedPosts) = {}
    /\ stats.processed <= Cardinality(knownIds(processedPosts))

\* C5: right after the drain of a triggered pass the pending buffer is
\* empty and every post that was in it at trigger time is known.
DrainConsumesBuffer ==
    (pass.active /\ pass.caller = "processBatch" /\ pass.idx = 1)
    => /\ postBatch = <<>>
       /\ idsOf(pass.atTrigger) \subseteq knownIds(processedPosts)

\* An addFilter, removeFilter or reset command has changed the filter list
\* and its storage write, or the pass that follows, has not completed.
CommandInFlight ==
    \/ \E k \in 1..Len(storageQ) :
          storageQ[k].kind \in {"addFilter", "removeFilter", "reset"}
    \/ pass.active /\ pass.caller \in {"addFilter", "removeFilter"}

\* C6: while one filter-management command is between its change of the
\* filter list and the end of its own write and pass, no other such command
\* (a step that issues a new storage operation) changes the filter list.
CommandsNotInterleaved ==
    [][ (CommandInFlight /\ Len(storageQ') > Len(storageQ))
        => filters' = filters ]_vars

\* C7: a filter restored from its saved tuple has the query text and the
\* query vector of the filter the command created.
RoundTripKeepsQuery ==
    rt.pc = "restored"
    => /\ Len(rt.restored) = 1
       /\ rt.restored[1].query = rt.created.query
       /\ rt.restored[1].queryVec = rt.created.queryVec

\* C8: a command "only show <q>" parses to mode show with query <q>, the
\* text after "only show ".
OnlyShowQuery ==
    (rt.pc = "created" /\ startsWith(trim(rt.command), kwOnlyShow))
    => /\ rt.created.mode = "show"
       /\ rt.created.query = trim(substring(trim(rt.command), Len(kwOnlyShow)))

\* The known posts as {id, text} records, without their visibility.
knownRecords(pp) == [i \in 1..Len(pp) |-> [id |-> pp[i].id, text |-> pp[i].text]]

\* C9: from the start of a pass until it reports, every step is the next
\* statement of that same pass: no other pass starts, the buffer is not
\* drained, and the filter list and the known-post set are not modified.
PassExclusive ==
    [][ pass.active
        => /\ filters' = filters
           /\ postBatch' = postBatch
           /\ knownRecords(processedPosts') = knownRecords(processedPosts)
           /\ \/ ~pass'.active
              \/ /\ pass'.idx = pass.idx + 1
                 /\ pass'.caller = pass.caller
      ]_vars

\* C9, witness: a pass is part-way through its filters while the idle timer
\* is armed, the buffer holds a post and a storage completion is awaited.
WitnessPassExclusive ==
    /\ pass.active
    /\ pass.idx > 1 /\ pass.idx <= Len(filters)
    /\ batchTimeout
    /\ postBatch # <<>>
    /\ storageQ # <<>>

\* C10: after a pass triggered by the buffer reaching the batch size, no
\* idle timer remains armed.
SizePassCancelsTimer ==
    (pass.active /\ pass.trigger = "size") => ~batchTimeout

\* C11: the idle trigger is a debounce: when the timer fires and starts a
\* pass, the full idle delay has elapsed since the most recent arrival
\* (the timer had its whole delay left to run at that arrival).
IdleTriggerDebounced ==
    [][ (batchTimeout /\ ~batchTimeout' /\ pass'.active)
        => timeLeft = IdleDelay ]_vars

\* C12: the step that ends a pass run over an empty filter list leaves
\* every known post marked visible and reports (and stores) a hidden count
\* of 0, whatever the marks were before.
NoFiltersShowsAll ==
    [][ (pass.active /\ Len(filters) = 0 /\ ~pass'.active)
        => /\ \A i \in 1..Len(processedPosts') : ~processedPosts'[i].hidden
           /\ knownRecords(processedPosts') = knownRecords(processedPosts)
           /\ reported' = 0
           /\ stats'.hidden = 0 ]_vars

\* C12, witness: a pass is running over an empty filter list while a known
\* post is still marked hidden by an earlier pass.
WitnessNoFiltersShowsAll ==
    /\ pass.active
    /\ Len(filters) = 0
    /\ countHidden(processedPosts) > 0

hideOnly(fs) == \A k \in 1..Len(fs) : fs[k].mode = "hide"

\* C14: a pass over hide-mode filters that starts where the previous pass
\* ended (no new posts, no filter change since) ends with the per-post
\* visibility and the hidden count the previous pass ended with.
HidePassIdempotent ==
    [][ (pass.active /\ ~pass'.active /\ lastPass.fresh /\ hideOnly(filters))
        => /\ [i \in 1..Len(processedPosts') |-> processedPosts'[i].hidden]
                = lastPass.hidden
           /\ reported' = lastPass.count ]_vars

\* C14, witness: the second of two passes in a row has applied its two
\* hide-mode filters; a post is hidden, another is visible.
WitnessHidePassIdempotent ==
    /\ Decided
    /\ lastPass.fresh
    /\ pass.caller = "rescan"
    /\ hideOnly(filters)
    /\ countHidden(processedPosts) > 0
    /\ visiblePosts # {}

\* C15: a pass over a record whose scoring faults still applies every
\* filter and ends by reporting the hidden count.
ScoringFaultContained ==
    [][ (/\ pass.active
         /\ Len(filters) > 0
         /\ scoringThrows(processedPosts)
         /\ ~pass'.active)
        => /\ pass.idx > Len(filters)
           /\ reported' = countHidden(processedPosts') ]_vars

topPhrases(r) ==
    { m \in (1..Len(r)) \X (1..Len(r)) \X (1..Len(r)) :
        /\ m[1] + 3 < m[2] /\ m[2] <= m[3]
        /\ toLowerCase(SubSeq(r, m[1], m[1] + 2)) = kwTop
        /\ \A i \in (m[1] + 3)..(m[2] - 1) : r[i] \in Whitespace
        /\ \A i \in m[2]..m[3] : r[i] \in Digits
        /\ m[3] < Len(r) => r[m[3] + 1] \notin Digits }

\* C17: "hide q" and "remove q" parse to mode hide, query q, threshold 0.5;
\* "show r" and "only r" parse to mode show, with topK 20 and query r
\* unless r holds "top <integer>": then topK is the integer of the leftmost
\* such phrase and the query is r with that phrase removed.
ParsedAsGrammar ==
    rt.pc = "created" =>
      LET text == trim(rt.command)
          low  == toLowerCase(text)
          r    == trim(SubSeq(text, 6, Len(text)))
      IN  /\ startsWith(low, kwHide)
                => /\ rt.created.mode = "hide"
                   /\ rt.created.query = trim(SubSeq(text, 6, Len(text)))
                   /\ rt.created.threshold = DefaultThreshold
          /\ startsWith(low, kwRemove)
                => /\ rt.created.mode = "hide"
                   /\ rt.created.query = trim(SubSeq(text, 8, Len(text)))
                   /\ rt.created.threshold = DefaultThreshold
          /\ (startsWith(low, kwShow) \/ startsWith(low, kwOnly))
                => /\ rt.created.mode = "show"
                   /\ IF topPhrases(r) = {}
                        THEN /\ rt.created.topK = DefaultTopK
                             /\ rt.created.query = r
                        ELSE \E m \in topPhrases(r) :
                               /\ \A n \in topPhrases(r) : m[1] <= n[1]
                               /\ rt.created.topK
                                     = parseInt(SubSeq(r, m[2], m[3]))
                               /\ rt.created.query
                                     = trim(SubSeq(r, 1, m[1] - 1)
                                            \o SubSeq(r, m[3] + 1, Len(r)))

\* C17, witness: "show top 10 tech" has been parsed to query "tech" with
\* topK 10.
WitnessParsedAsGrammar ==
    /\ rt.pc = "created"
    /\ rt.command = kwShow \o kwTop \o <<" ", "1", "0", " ", "t", "e", "c", "h">>
    /\ rt.created.mode = "show"
    /\ rt.created.query = <<"t", "e", "c", "h">>
    /\ rt.created.topK = 10

\* C18: when an addFilter or removeFilter command answers, the persisted
\* metadata and the filter list of the answer are both the {query, mode,
\* topK, threshold} projection of the active filter list, in order.
ResponseMatchesFilters ==
    [][ (/\ pass.active
         /\ pass.caller \in {"addFilter", "removeFilter"}
         /\ ~pass'.active)
        => /\ response'.to = pass.caller
           /\ response'.filters = filterMetadata(filters')
           /\ storage' = filterMetadata(filters') ]_vars

\* C19: no step removes an id from the known posts, and no step puts into
\* the pending buffer an id that was known.
KnownIdsAppendOnly ==
    [][ /\ knownIds(processedPosts) \subseteq knownIds(processedPosts')
        /\ (idsOf(postBatch') \ idsOf(postBatch))
              \cap knownIds(processedPosts) = {} ]_vars

\* C19, witness: a reset has completed and answered, and the posts
\* ingested before it are still known.
WitnessKnownIdsAppendOnly ==
    /\ response.to = "reset"
    /\ response.success
    /\ filters = <<>>
    /\ stats.processed = 0
    /\ Len(processedPosts) = 2

\* All components of the vector are 0.
isZeroVector(v) == \A i \in 1..Len(v) : v[i] = 0

\* C20: cosineSimilarity returns exactly 0 when either argument is null,
\* when the lengths differ, and when either vector has zero norm.
CosineSafety ==
    (/\ cos.pc = "done"
     /\ \/ cos.embedding1.absent
        \/ cos.embedding2.absent
        \/ Len(cos.embedding1.elems) # Len(cos.embedding2.elems)
        \/ isZeroVector(cos.embedding1.elems)
        \/ isZeroVector(cos.embedding2.elems))
    => cos.result = Zero

\* C20, witness: cosineSimilarity has been called with a non-zero vector
\* and a zero vector of the same length, and returned 0.
WitnessCosineSafety ==
    /\ cos.pc = "done"
    /\ ~cos.embedding1.absent /\ ~cos.embedding2.absent
    /\ Len(cos.embedding1.elems) = Len(cos.embedding2.elems)
    /\ Len(cos.embedding1.elems) > 0
    /\ ~isZeroVector(cos.embedding1.elems)
    /\ isZeroVector(cos.embedding2.elems)
    /\ cos.result = Zero

\* C21: every id tokenIdFor returns is an integer of 0 .. vocabSize - 1, and
\* calling it again on the same word returns the same id.
TokenIdInRange ==
    \A k \in 1..Len(tok.ids) :
        /\ tok.ids[k] \in 0..(vocabSize - 1)
        /\ tok.ids[k] = tok.ids[1]

\* tokenIdFor was called twice on a word whose hash has the top bit set, the
\* case in which a signed remainder would be negative.
WitnessTokenIdInRange ==
    /\ Len(tok.ids) = 2
    /\ tok.word # <<>>
    /\ hash32(tok.word).hi >= Half \div 2
    /\ tok.ids[1] > 0

\* C22: a filter restored from a saved tuple has the mode recorded in that
\* tuple.
RoundTripKeepsMode ==
    rt.pc = "restored"
    => \A i \in 1..Len(rt.restored) : rt.restored[i].mode = rt.saved[i].mode

\* C23: while filtering is enabled and no pass is running, the document
\* hides exactly the known posts that are marked hidden.
RenderedIsDecided ==
    (enabled /\ Idle)
    => \A i \in 1..Len(processedPosts) :
           (processedPosts[i].id \in rendered) = processedPosts[i].hidden

\* C24: while filtering is disabled no known post is marked hidden and the
\* reported hidden count is 0.
DisabledHidesNothing ==
    ~enabled
    => /\ \A i \in 1..Len(processedPosts) : ~processedPosts[i].hidden
       /\ reported = 0

\* C26: when the pass started by a removeFilter command ends, every known
\* post that no remaining filter decides to hide is marked visible.
RemovalUnhides ==
    [][ (pass.active /\ pass.caller = "removeFilter" /\ ~pass'.active)
        => \A i \in 1..Len(processedPosts') :
              (\A k \in 1..Len(filters) :
                   ~(touches(filters[k], i) /\ decidesHidden(filters[k], i)))
              => ~processedPosts'[i].hidden ]_vars

\* C25: every post in the pending buffer is eventually a known post, given
\* that armed timers fire and passes run to their end.
BufferedEventuallyKnown ==
    \A post \in PostsPass :
        (\E i \in 1..Len(postBatch) : postBatch[i].id = post.id)
            ~> hasPost(processedPosts, post.id)

====
